---- MODULE Spec2Model ----
(***************************************************************************)
(* Model of the AudioPlayer component (src/unnamed/part_000): the segment  *)
(* locator (activeParagraphIndex), the decoder effect, the progress-clock  *)
(* effect and the play / pause / toggle transport.                         *)
(*                                                                         *)
(* Time is counted in sample frames of the 24000 Hz context, so a buffer   *)
(* of n samples has duration n and the audio clock advances in whole       *)
(* frames.  Quotients of two integers are kept as fractions and compared   *)
(* the way IEEE-754 doubles compare (x/0 is an infinity, 0/0 is NaN and    *)
(* every comparison with NaN is false).                                    *)
(*                                                                         *)
(* The props (base64Audio, isLoading) are inputs of the component: the     *)
(* host may render it with any payload at any time.  One action is one     *)
(* event of the page (a render by the host, a click, a frame callback, a   *)
(* resolved resume()) together with the commit it causes: the state        *)
(* updates of the handler, the re-render, and the cleanups and effects of  *)
(* that render, as React 18 flushes them for a discrete event.  The only   *)
(* place a handler yields is `await resume()` in handlePlay; the calls     *)
(* waiting there are kept in pendingPlays with the values they closed      *)
(* over.  A context is constructed suspended; the resume() promises of a   *)
(* context resolve together, in order, when it starts running.             *)
(*                                                                         *)
(* lastEvent records what the last event did as seen from outside the      *)
(* component (a call of onGenerate, a thrown error, a click that reached   *)
(* no handler).  The locator and the decoder are pure functions of their   *)
(* inputs and also run on their own (SpecLocator, SpecDecoder),           *)
(* over every input within the bounds; the decoder reports buffer.duration *)
(* in seconds there.                                                       *)
(*                                                                         *)
(* SpecHost is the lesson screen of the App (src/services/geminiService.ts)*)
(* that mounts the player: the unit on display, the lesson mode, the audio *)
(* it hands to the player and the podcast generations in flight.  SpecRun  *)
(* is one playing run of the progress clock on its own: a play at an       *)
(* offset, the samples updateProgress publishes, and the pause or end of   *)
(* track that closes the run.  While one specification runs, the variables *)
(* of the others stay at their initial value.                              *)
(***************************************************************************)
EXTENDS Integers, Naturals, Sequences, FiniteSets, TLC

VARIABLES
    \* ---- the component (props, React state, refs)
    lifecycle,       \* "mounted" | "unmounted"
    base64Audio,     \* prop: [present, text]; present = FALSE is null
    isLoading,       \* prop
    isPlaying,       \* useState(false)
    currentTime,     \* useState(0), in sample frames
    duration,        \* useState(0), in sample frames
    audioBuffer,     \* useState(null): [present, channelData]
    audioContextRef, \* useRef(null): 0 is null, else the id of a context
    audioSourceRef,  \* useRef(null): 0 is null, else the id of a source node
    startTimeRef,    \* useRef(0)
    animationFrame,  \* the frame callback of the timer effect: [pending, isPlaying, duration]
    frameCallbacks,  \* how many updateProgress callbacks the browser holds for the next frame
    pendingPlays,    \* handlePlay calls suspended at `await resume()`, oldest first
    lastEvent,       \* what the last event of the page did, as seen from outside:
                     \*   "generate"    a click that called onGenerate()
                     \*   "pause"       a click that called handlePause()
                     \*   "play"        a click that called handlePlay()
                     \*   "playThrew"   a click whose handlePlay() threw before it yielded
                     \*   "rejected"    a handlePlay() that threw at or after its await
                     \*   "ignored"     a click on the disabled button
                     \*   "decodeThrew" a render whose initAudio logged "Audio Decode Error"
                     \*   "other"       anything else
    \* ---- the audio engine
    contexts,        \* id -> [state, clock, closeRejected], in order of construction
    sources,         \* id -> [ctx, length, offset, startedAt, stopped], in order of start
    \* ---- inputs and results of the segment locator taken on its own
    locPhase,        \* "off" | "input" before the memo is computed | "done" after
    locTimeA,        \* currentTime of the first evaluation
    locTimeB,        \* currentTime of the second evaluation
    locDuration,     \* duration of both evaluations
    locScript,       \* script of both evaluations
    locIndexA,       \* activeParagraphIndex at locTimeA
    locIndexB,       \* activeParagraphIndex at locTimeB
    \* ---- input and results of the decoder taken on its own
    decPhase,        \* "off" | "input" before initAudio | "decoded" | "threw" after
    decText,         \* the payload string, as base64 digits
    decBuffer,       \* the audioBuffer state after the decode
    decDuration,     \* the duration state after the decode, in seconds
    \* ---- the state of the host (App) that feeds the player
    screen,          \* "SYLLABUS" | "LESSON" | "off" outside a run of the host
    currentUnit,     \* the unit of currentChapterIdx / currentUnitIdx
    lessonMode,      \* "READ" | "LISTEN" | "QUIZ"
    audioData,       \* 0 for null, or the unit whose podcast script it was made from
    isAudioLoading,  \* the player's isLoading prop
    generations,     \* the generatePodcastAudio calls in flight, by unit
    \* ---- one payload on one running context, with the values the progress
    \* ---- clock published
    runPhase,        \* "off" | "paused" | "playing"
    runClock,        \* currentTime of the audio context
    runDuration,     \* duration
    runTime,         \* currentTime
    runAnchor,       \* startTimeRef.current
    runOffset,       \* the offset the last handlePlay started from
    runSamples,      \* 0, 1 or 2 (for more): values published since that handlePlay
    runPrev          \* the value published before runTime since that handlePlay

propVars == <<base64Audio, isLoading>>
stateVars == <<isPlaying, currentTime, duration, audioBuffer>>
refVars == <<audioContextRef, audioSourceRef, startTimeRef>>
engineVars == <<contexts, sources>>
playerVars == <<lifecycle, propVars, stateVars, refVars, animationFrame, frameCallbacks,
                pendingPlays, lastEvent, engineVars>>

locVars == <<locPhase, locTimeA, locTimeB, locDuration, locScript, locIndexA, locIndexB>>

decVars == <<decPhase, decText, decBuffer, decDuration>>
hostVars == <<screen, currentUnit, lessonMode, audioData, isAudioLoading, generations>>
runVars == <<runPhase, runClock, runDuration, runTime, runAnchor, runOffset, runSamples,
             runPrev>>
pureVars == <<locVars, decVars, hostVars, runVars>>

vars == <<playerVars, locVars, decVars, hostVars, runVars>>

\* ---------------------------------------------------------------- bounds
MaxSegments == 3      \* longest script of the locator runs
MaxTime == 5          \* largest currentTime / duration of the locator runs
MaxContexts == 2      \* audio contexts constructed in one run
MaxSources == 2       \* source nodes started in one run
MaxPending == 2       \* handlePlay calls awaiting resume() at one time
MaxClock == 3         \* frames an audio clock advances in one run
MaxText == 6          \* base64 digits of a payload decoded on its own
MaxUnits == 4         \* units of the syllabus of the host runs
MaxGenerations == 2   \* generatePodcastAudio calls in flight at one time
MaxRunTime == 3       \* longest duration of the runs of the progress clock
MaxRunClock == 6      \* largest reading of the audio clock in those runs

\* the paragraphs scripts are built from (lengths 0, 2, 4 and 6)
Paragraphs == {"", "ab", "abcd", "abcdef"}

Scripts == UNION {[1..n -> Paragraphs] : n \in 0..MaxSegments}

\* ------------------------------------------------- double-precision ratios
\* x / y of two integers, y >= 0, as the double the division yields
Div(x, y) == [num |-> x, den |-> y]

\* a quotient 0/0 that compares like a number
IsNaNNever(q) == FALSE

IsNaN(q) == q.den = 0 /\ q.num = 0
IsPosInf(q) == q.den = 0 /\ q.num > 0
IsNegInf(q) == q.den = 0 /\ q.num < 0

\* p <= q on doubles
Leq(p, q) ==
    IF IsNaN(p) \/ IsNaN(q) THEN FALSE
    ELSE IF IsNegInf(p) \/ IsPosInf(q) THEN TRUE
    ELSE IF IsPosInf(p) \/ IsNegInf(q) THEN FALSE
    ELSE p.num * q.den <= q.num * p.den

\* p < q on doubles
Lt(p, q) ==
    IF IsNaN(p) \/ IsNaN(q) THEN FALSE
    ELSE IF IsPosInf(p) \/ IsNegInf(q) THEN FALSE
    ELSE IF IsNegInf(p) \/ IsPosInf(q) THEN TRUE
    ELSE p.num * q.den < q.num * p.den

\* -------------------------------------------------------- segment locator
RECURSIVE SumLengths(_, _)
\* script.slice(0, n).reduce((acc, p) => acc + p.length, 0)
SumLengths(script, n) ==
    IF n = 0 THEN 0 ELSE SumLengths(script, n - 1) + Len(script[n])

\* const totalChars = script.reduce((acc, p) => acc + p.length, 0)
TotalChars(script) == SumLengths(script, Len(script))

\* the guard of line 22, as a mutant that lets every duration through
ZeroDurationGuardDropped(dur) == FALSE

\* if (!duration || duration === 0) return 0
ZeroDurationGuard(dur) == dur = 0

\* the test of line 32 with the boundary excluded
ProgressWithinStrict(progress, pEndRatio) == Lt(progress, pEndRatio)

\* the test of line 32 with the comparison turned round
ProgressWithinFlipped(progress, pEndRatio) == Leq(pEndRatio, progress)

\* if (progress <= pEndRatio)
ProgressWithin(progress, pEndRatio) == Leq(progress, pEndRatio)

RECURSIVE LocateFrom(_, _, _, _, _)
\* the for loop of lines 29-36 from index i (0-based) on, then line 37
LocateFrom(i, charCountSoFar, progress, totalChars, script) ==
    IF i >= Len(script) THEN Len(script) - 1
    ELSE LET pLen == Len(script[i + 1])
             pEndRatio == Div(charCountSoFar + pLen, totalChars)
         IN IF ProgressWithin(progress, pEndRatio) THEN i
            ELSE LocateFrom(i + 1, charCountSoFar + pLen, progress, totalChars, script)

\* the useMemo body of lines 21-38; indices are 0-based as in the source
activeParagraphIndex(time, dur, script) ==
    IF ZeroDurationGuard(dur) THEN 0
    ELSE LocateFrom(0, 0, Div(time, dur), TotalChars(script), script)

\* ------------------------------------------------------------- decoder
\* characters of a payload string: 0..63 are the base64 digits by value,
\* Pad is '=', Illegal is any character outside the base64 alphabet
Pad == 64
Illegal == 65

SampleRate == 24000     \* frames per second of the context and of the buffer
Int16Scale == 32768     \* divisor of line 59

\* base64Audio = null
NoPayload == [present |-> FALSE, text |-> <<>>]

\* a payload string
Payload(text) == [present |-> TRUE, text |-> text]

\* if (base64Audio): null and "" are falsy
Truthy(b64) == b64.present /\ Len(b64.text) > 0

\* atob, step 1: with a length that is a multiple of 4, one or two trailing
\* '=' are removed
StripPadding(text) ==
    LET n == Len(text) IN
    IF n > 0 /\ n % 4 = 0 /\ text[n] = Pad
    THEN IF text[n - 1] = Pad THEN SubSeq(text, 1, n - 2) ELSE SubSeq(text, 1, n - 1)
    ELSE text

RECURSIVE SextetsToBytes(_)
\* atob, step 3: four digits give three bytes; two trailing digits give one
\* byte and three give two, the left-over bits being discarded
SextetsToBytes(d) ==
    IF Len(d) >= 4
    THEN <<d[1] * 4 + d[2] \div 16, (d[2] % 16) * 16 + d[3] \div 4, (d[3] % 4) * 64 + d[4]>>
         \o SextetsToBytes(SubSeq(d, 5, Len(d)))
    ELSE IF Len(d) = 3
    THEN <<d[1] * 4 + d[2] \div 16, (d[2] % 16) * 16 + d[3] \div 4>>
    ELSE IF Len(d) = 2
    THEN <<d[1] * 4 + d[2] \div 16>>
    ELSE <<>>

\* atob(base64Audio) with the bytes of lines 50-54: throws on a character
\* outside the alphabet and on a digit count of 1 modulo 4
atob(text) ==
    LET d == StripPadding(text) IN
    IF (\E i \in 1..Len(d) : d[i] > 63) \/ Len(d) % 4 = 1
    THEN [ok |-> FALSE, bytes |-> <<>>]
    ELSE [ok |-> TRUE, bytes |-> SextetsToBytes(d)]

\* an element read as an unsigned 16-bit integer
ToInt16Unsigned(lo, hi) == lo + 256 * hi

\* one element of new Int16Array(bytes.buffer): little-endian, two's complement
ToInt16(lo, hi) ==
    LET u == lo + 256 * hi IN IF u >= 32768 THEN u - 65536 ELSE u

\* an Int16Array that drops a final odd byte
Int16ArrayOfTruncating(bytes) ==
    [ok |-> TRUE,
     data |-> [i \in 1..(Len(bytes) \div 2) |-> ToInt16(bytes[2 * i - 1], bytes[2 * i])]]

\* new Int16Array(bytes.buffer): a RangeError when the byte length is odd
Int16ArrayOf(bytes) ==
    IF Len(bytes) % 2 # 0
    THEN [ok |-> FALSE, data |-> <<>>]
    ELSE [ok |-> TRUE,
          data |-> [i \in 1..(Len(bytes) \div 2) |-> ToInt16(bytes[2 * i - 1], bytes[2 * i])]]

\* a decode that fills the channel from its last sample to its first
DecodePayloadReversed(text) ==
    LET bin == atob(text)
        dataInt16 == Int16ArrayOf(bin.bytes)
        n == Len(dataInt16.data)
    IN IF ~bin.ok \/ ~dataInt16.ok \/ n = 0
       THEN [ok |-> FALSE, channelData |-> <<>>]
       ELSE [ok |-> TRUE,
             channelData |-> [i \in 1..n |-> Div(dataInt16.data[n + 1 - i], Int16Scale)]]

\* lines 49-60 after the context exists: the buffer, or the throw that the
\* catch of line 63 swallows (createBuffer refuses a length of 0)
DecodePayload(text) ==
    LET bin == atob(text)
        dataInt16 == Int16ArrayOf(bin.bytes)
    IN IF ~bin.ok \/ ~dataInt16.ok \/ Len(dataInt16.data) = 0
       THEN [ok |-> FALSE, channelData |-> <<>>]
       ELSE [ok |-> TRUE,
             channelData |-> [i \in 1..Len(dataInt16.data) |->
                                 Div(dataInt16.data[i], Int16Scale)]]

\* audioBuffer = null
NoBuffer == [present |-> FALSE, channelData |-> <<>>]

\* buffer.duration = length / sampleRate seconds, counted in sample frames
BufferDuration(buffer) == Len(buffer.channelData)

\* buffer.duration in seconds
BufferSeconds(buffer) == Div(Len(buffer.channelData), SampleRate)

\* the digits the payloads decoded on their own are made of: with them a
\* sample can be -32768 (0, 8, 0), 0 (0, 0, 0) and 32767 (63, 55, 63); a Pad
\* that atob does not strip is a character it rejects
Digits == {0, 8, 55, 63, Pad}

\* the payload strings decoded on their own
Texts == UNION {[1..n -> Digits] : n \in 0..MaxText}

\* the payloads the host hands over: two samples, three samples, and three
\* bytes (an odd byte length)
PayloadTwo == Payload(<<0, 0, 3, 63, 31, 48, Pad, Pad>>)
PayloadThree == Payload(<<0, 8, 0, 1, 0, 15, 63, 63>>)
PayloadOdd == Payload(<<0, 0, 0, 0>>)
Payloads == {PayloadTwo, PayloadThree, PayloadOdd}

\* ---------------------------------------------------------- audio engine
Min(a, b) == IF a <= b THEN a ELSE b

\* new AudioContext({sampleRate: 24000}): a context is constructed suspended
\* and starts running once the page is allowed to start audio
NewContext == [state |-> "suspended", clock |-> 0, closeRejected |-> FALSE]

ContextIds == 1..Len(contexts)

\* the awaiting handlePlay calls of a context / of the other contexts
AwaitingOn(c) == SelectSeq(pendingPlays, LAMBDA k : k.ctx = c)
AwaitingElsewhere(c) == SelectSeq(pendingPlays, LAMBDA k : k.ctx # c)

\* a started source node sounds until it is stopped, has played its buffer
\* to the end, or its context is closed
Sounding(src, ctxs) ==
    /\ ~src.stopped
    /\ ctxs[src.ctx].state # "closed"
    /\ ctxs[src.ctx].clock - src.startedAt < src.length - src.offset

\* what the engine keeps of a node that sounds no more
SilentSource == [ctx |-> 0, length |-> 0, offset |-> 0, startedAt |-> 0, stopped |-> TRUE]

\* the source nodes after the engine dropped those that sound no more
Retire(srcs, ctxs) ==
    [n \in DOMAIN srcs |-> IF Sounding(srcs[n], ctxs) THEN srcs[n] ELSE SilentSource]

\* a closed context that the ref no longer holds is never read again: its
\* clock is forgotten
Forget(ctxs, ref) ==
    [c \in DOMAIN ctxs |->
        IF c # ref /\ ctxs[c].state = "closed" THEN [ctxs[c] EXCEPT !.clock = 0]
        ELSE ctxs[c]]

\* the source node n still sounds
SourceLive(n) == ~sources[n].stopped

\* --------------------------------------------------- effects of a render
\* a cleanup of lines 69-73 that releases nothing
CleanupInitAudioNoClose(ctxs, ref) == ctxs

\* lines 69-73: audioContextRef.current.close(), when the ref is set; the
\* engine rejects a close() of a context that is closed already
CleanupInitAudio(ctxs, ref) ==
    IF ref = 0 THEN ctxs
    ELSE [ctxs EXCEPT ![ref].state = "closed",
                      ![ref].closeRejected = @ \/ ctxs[ref].state = "closed"]

\* a timer effect without the cleanup of line 98: a frame that is pending
\* stays pending, with the callback that was scheduled
TimerEffectNoCancel(frame, wasPlaying, wasDuration, nowPlaying, nowDuration) ==
    IF wasPlaying = nowPlaying /\ wasDuration = nowDuration
    THEN frame
    ELSE IF nowPlaying
    THEN [pending |-> TRUE, isPlaying |-> TRUE, duration |-> nowDuration]
    ELSE frame

\* lines 77-99 at a commit: when isPlaying or duration changed, the cleanup
\* cancels the pending frame and the effect schedules one iff isPlaying; the
\* callback closes over the isPlaying and duration of that render
TimerEffect(frame, wasPlaying, wasDuration, nowPlaying, nowDuration) ==
    IF wasPlaying = nowPlaying /\ wasDuration = nowDuration
    THEN frame
    ELSE [pending |-> nowPlaying, isPlaying |-> nowPlaying, duration |-> nowDuration]

\* line 98: cancelAnimationFrame(animationFrame) takes the callback the
\* effect's variable names out of the n the browser holds, when that one
\* has not fired yet
CancelFrame(n, frame) == IF frame.pending THEN n - 1 ELSE n

\* a timer effect whose cleanup cancels nothing
TimerEffectCallbacksNoCancel(n, frame, wasPlaying, wasDuration, nowPlaying, nowDuration) ==
    IF wasPlaying = nowPlaying /\ wasDuration = nowDuration
    THEN n
    ELSE n + (IF nowPlaying THEN 1 ELSE 0)

\* lines 77-99 at a commit, on the callbacks the browser holds: when
\* isPlaying or duration changed the cleanup cancels (line 98) and the effect
\* requests one frame iff isPlaying (lines 94-96)
TimerEffectCallbacks(n, frame, wasPlaying, wasDuration, nowPlaying, nowDuration) ==
    IF wasPlaying = nowPlaying /\ wasDuration = nowDuration
    THEN n
    ELSE CancelFrame(n, frame) + (IF nowPlaying THEN 1 ELSE 0)

\* an end of track that publishes the elapsed time
EndOfTrackTimeElapsed(elapsed, dur) == elapsed

\* line 89: setCurrentTime(duration)
EndOfTrackTime(elapsed, dur) == dur

\* ------------------------------------------------------------- transport
\* an offset that is not reset at the end of the track
PlayOffsetNoRestart(ct, dur) == ct

\* line 114: const offset = currentTime >= duration ? 0 : currentTime
PlayOffset(ct, dur) == IF ct >= dur THEN 0 ELSE ct

\* an anchor that ignores the offset
AnchorNoOffset(now, offset) == now

\* line 117: audioContextRef.current.currentTime - offset
Anchor(now, offset) == now - offset

\* the transport fields one handlePlay body rewrites
Transport == [audioSourceRef |-> audioSourceRef, startTimeRef |-> startTimeRef,
              isPlaying |-> isPlaying, sources |-> sources]

\* a handlePlay that goes on without a decoded buffer
PlayReturnsEarlyNoBufferTest(buffer, ref) == ref = 0

\* line 103: if (!audioBuffer || !audioContextRef.current) return
PlayReturnsEarly(buffer, ref) == ~buffer.present \/ ref = 0

\* a handlePlay that never waits for the context
MustResumeNever(state) == FALSE

\* line 105: if (audioContextRef.current.state === 'suspended'), the call
\* awaits resume()
MustResume(state) == state = "suspended"

\* line 115: source.start(0, offset) throws a RangeError on a negative offset
StartThrows(k) == PlayOffset(k.currentTime, k.duration) < 0

\* lines 109-120 when nothing throws: a new node plays from the offset, the
\* anchor and the ref are written and isPlaying is set
StartedTransport(t, k, ref, now) ==
    LET offset == PlayOffset(k.currentTime, k.duration) IN
    [audioSourceRef |-> Len(t.sources) + 1,
     startTimeRef |-> Anchor(now, offset),
     isPlaying |-> TRUE,
     sources |-> Append(t.sources,
                        [ctx |-> ref, length |-> BufferDuration(k.audioBuffer),
                         offset |-> offset, startedAt |-> now, stopped |-> FALSE])]

\* a handlePlay that sets isPlaying before it starts the source
PlayBodyMarksPlayingFirst(t, k, ref, now) ==
    IF StartThrows(k) THEN [t EXCEPT !.isPlaying = TRUE]
    ELSE StartedTransport(t, k, ref, now)

\* lines 109-120 for a call k = [ctx, audioBuffer, currentTime, duration]
\* made on the context of the ref, whose clock reads now; when source.start
\* throws, the call ends there
PlayBody(t, k, ref, now) ==
    IF StartThrows(k) THEN t
    ELSE StartedTransport(t, k, ref, now)

RECURSIVE PlayBodies(_, _, _, _)
\* the bodies of the calls ks, in the order their promises resolve
PlayBodies(t, ks, ref, now) ==
    IF ks = <<>> THEN t
    ELSE PlayBodies(PlayBody(t, Head(ks), ref, now), Tail(ks), ref, now)

\* lines 49-62 run on each value of the prop: what decoding it gives
DecodedPayloads == [p \in Payloads \cup {NoPayload} |-> DecodePayload(p.text)]

\* -------------------------------------------------------------- actions
PlayerInit ==
    /\ lifecycle = "mounted"
    /\ base64Audio = NoPayload
    /\ isLoading = FALSE
    /\ isPlaying = FALSE
    /\ currentTime = 0
    /\ duration = 0
    /\ audioBuffer = NoBuffer
    /\ audioContextRef = 0
    /\ audioSourceRef = 0
    /\ startTimeRef = 0
    /\ animationFrame = [pending |-> FALSE, isPlaying |-> FALSE, duration |-> 0]
    /\ frameCallbacks = 0
    /\ pendingPlays = <<>>
    /\ lastEvent = "other"
    /\ contexts = <<>>
    /\ sources = <<>>

\* the host renders the player with another base64Audio: the cleanup of the
\* previous init effect, then the effect of lines 42-68 (the constructor of
\* the context throws when engineOk is FALSE), then the timer effect of the
\* render that setAudioBuffer / setDuration cause
SetBase64Audio(p, engineOk) ==
    /\ lifecycle = "mounted"
    /\ p # base64Audio
    /\ Truthy(p) \/ engineOk
    /\ (Truthy(p) /\ engineOk) => Len(contexts) < MaxContexts
    /\ LET released == CleanupInitAudio(contexts, audioContextRef)
           creates == Truthy(p) /\ engineOk
           decoded == DecodedPayloads[p]
           publishes == creates /\ decoded.ok
           nowDuration == IF publishes THEN Len(decoded.channelData) ELSE duration
       IN /\ base64Audio' = p
          /\ audioContextRef' = IF creates THEN Len(contexts) + 1 ELSE audioContextRef
          /\ contexts' = Forget(IF creates THEN Append(released, NewContext) ELSE released,
                                audioContextRef')
          /\ sources' = Retire(sources, contexts')
          /\ audioBuffer' = IF publishes
                            THEN [present |-> TRUE, channelData |-> decoded.channelData]
                            ELSE audioBuffer
          /\ duration' = nowDuration
          /\ animationFrame' = TimerEffect(animationFrame, isPlaying, duration,
                                           isPlaying, nowDuration)
          /\ frameCallbacks' = TimerEffectCallbacks(frameCallbacks, animationFrame, isPlaying,
                                                    duration, isPlaying, nowDuration)
          \* a closed context never resumes: the calls awaiting it never continue
          /\ pendingPlays' = IF audioContextRef = 0 THEN pendingPlays
                             ELSE AwaitingElsewhere(audioContextRef)
          \* lines 63-65: whatever the try block throws is logged and dropped
          /\ lastEvent' = IF Truthy(p) /\ ~publishes THEN "decodeThrew" ELSE "other"
    /\ UNCHANGED <<lifecycle, isLoading, isPlaying, currentTime, audioSourceRef,
                   startTimeRef, pureVars>>

\* the host flips isLoading
SetIsLoading ==
    /\ lifecycle = "mounted"
    /\ isLoading' = ~isLoading
    /\ lastEvent' = "other"
    /\ UNCHANGED <<lifecycle, base64Audio, stateVars, refVars, animationFrame,
                   frameCallbacks, pendingPlays, engineVars, pureVars>>

\* the host removes the player: both cleanups run
Unmount ==
    /\ lifecycle = "mounted"
    /\ lifecycle' = "unmounted"
    /\ lastEvent' = "other"
    /\ contexts' = CleanupInitAudio(contexts, audioContextRef)
    /\ sources' = Retire(sources, contexts')
    /\ animationFrame' = [animationFrame EXCEPT !.pending = FALSE]
    /\ frameCallbacks' = CancelFrame(frameCallbacks, animationFrame)
    /\ pendingPlays' = IF audioContextRef = 0 THEN pendingPlays
                       ELSE AwaitingElsewhere(audioContextRef)
    /\ UNCHANGED <<propVars, stateVars, refVars, pureVars>>

\* the audio clock of a running context advances by one frame
Tick(c) ==
    /\ c \in ContextIds
    /\ contexts[c].state = "running"
    /\ contexts[c].clock < MaxClock
    /\ contexts' = [contexts EXCEPT ![c].clock = @ + 1]
    /\ sources' = Retire(sources, contexts')
    /\ lastEvent' = "other"
    /\ UNCHANGED <<lifecycle, propVars, stateVars, refVars, animationFrame,
                   frameCallbacks, pendingPlays, pureVars>>

\* a sample that takes elapsed = duration for the end of the track
ProgressSampleEndsAtDuration(now, anchor, dur) ==
    LET elapsed == now - anchor IN
    IF elapsed < dur
    THEN [ended |-> FALSE, time |-> Min(elapsed, dur)]
    ELSE [ended |-> TRUE, time |-> EndOfTrackTime(elapsed, dur)]

\* lines 81-90: one sample of the clock reading now against the anchor:
\* the time it publishes, and whether it found the end of the track
ProgressSample(now, anchor, dur) ==
    LET elapsed == now - anchor IN
    IF elapsed <= dur
    THEN [ended |-> FALSE, time |-> Min(elapsed, dur)]
    ELSE [ended |-> TRUE, time |-> EndOfTrackTime(elapsed, dur)]

\* lines 79-92: the frame callback fires
UpdateProgress ==
    /\ lifecycle = "mounted"
    /\ animationFrame.pending
    /\ IF animationFrame.isPlaying /\ audioContextRef # 0
       THEN LET sample == ProgressSample(contexts[audioContextRef].clock, startTimeRef,
                                             animationFrame.duration)
            IN IF ~sample.ended
               THEN /\ currentTime' = sample.time
                    \* line 86: the callback that ran requests the next one
                    /\ frameCallbacks' = (frameCallbacks - 1) + 1
                    /\ UNCHANGED <<isPlaying, animationFrame>>
               ELSE /\ isPlaying' = FALSE
                    /\ currentTime' = sample.time
                    /\ animationFrame' =
                           TimerEffect([animationFrame EXCEPT !.pending = FALSE],
                                       isPlaying, duration, FALSE, duration)
                    /\ frameCallbacks' =
                           TimerEffectCallbacks(frameCallbacks - 1,
                                                [animationFrame EXCEPT !.pending = FALSE],
                                                isPlaying, duration, FALSE, duration)
       ELSE /\ animationFrame' = [animationFrame EXCEPT !.pending = FALSE]
            /\ frameCallbacks' = frameCallbacks - 1
            /\ UNCHANGED <<isPlaying, currentTime>>
    /\ lastEvent' = "other"
    /\ UNCHANGED <<lifecycle, propVars, duration, audioBuffer, refVars,
                   pendingPlays, engineVars, pureVars>>

\* a button that is never disabled
ButtonDisabledNever(loading) == FALSE

\* line 150: disabled={isLoading}
ButtonDisabled(loading) == loading

\* a togglePlay without the branch of lines 132-135
ToggleBranchNoGenerate(b64, loading, playing) ==
    IF playing THEN "pause" ELSE "play"

\* lines 132-140: what togglePlay calls
ToggleBranch(b64, loading, playing) ==
    IF ~Truthy(b64) /\ ~loading THEN "generate"
    ELSE IF playing THEN "pause"
    ELSE "play"

\* a handlePause that keeps the source node in the ref
HandlePauseKeepsRef(t) ==
    IF t.audioSourceRef # 0
    THEN [t EXCEPT !.sources[t.audioSourceRef].stopped = TRUE, !.isPlaying = FALSE]
    ELSE t

\* lines 123-129: handlePause on the transport fields t
HandlePause(t) ==
    IF t.audioSourceRef # 0
    THEN [t EXCEPT !.sources[t.audioSourceRef].stopped = TRUE,
                   !.audioSourceRef = 0,
                   !.isPlaying = FALSE]
    ELSE t

\* a click on the disabled button reaches no handler
ClickDisabled ==
    /\ lifecycle = "mounted"
    /\ ButtonDisabled(isLoading)
    /\ lastEvent' = "ignored"
    /\ UNCHANGED <<lifecycle, propVars, stateVars, refVars, animationFrame,
                   frameCallbacks, pendingPlays, engineVars, pureVars>>

\* lines 131-135: a click with no payload asks the host to generate
TogglePlayGenerate ==
    /\ lifecycle = "mounted"
    /\ ~ButtonDisabled(isLoading)
    /\ ToggleBranch(base64Audio, isLoading, isPlaying) = "generate"
    /\ lastEvent' = "generate"
    /\ UNCHANGED <<lifecycle, propVars, stateVars, refVars, animationFrame,
                   frameCallbacks, pendingPlays, engineVars, pureVars>>

\* lines 136-137 and 123-129: a click while playing
TogglePlayPause ==
    /\ lifecycle = "mounted"
    /\ ~ButtonDisabled(isLoading)
    /\ ToggleBranch(base64Audio, isLoading, isPlaying) = "pause"
    /\ LET t == HandlePause(Transport)
       IN /\ sources' = Retire(t.sources, contexts)
          /\ audioSourceRef' = t.audioSourceRef
          /\ isPlaying' = t.isPlaying
          /\ startTimeRef' = t.startTimeRef
          /\ animationFrame' = TimerEffect(animationFrame, isPlaying, duration,
                                           t.isPlaying, duration)
          /\ frameCallbacks' = TimerEffectCallbacks(frameCallbacks, animationFrame, isPlaying,
                                                    duration, t.isPlaying, duration)
    /\ lastEvent' = "pause"
    /\ UNCHANGED <<lifecycle, propVars, currentTime, duration, audioBuffer,
                   audioContextRef, pendingPlays, contexts, pureVars>>

\* lines 138-139 and 102-121: a click while not playing; the call returns at
\* line 103, or suspends at line 106, or runs lines 109-120 at once
TogglePlayPlay ==
    /\ lifecycle = "mounted"
    /\ ~ButtonDisabled(isLoading)
    /\ ToggleBranch(base64Audio, isLoading, isPlaying) = "play"
    /\ \/ PlayReturnsEarly(audioBuffer, audioContextRef)
       \/ /\ Len(sources) + Len(pendingPlays) < MaxSources
          /\ Len(pendingPlays) < MaxPending
    /\ LET k == [ctx |-> audioContextRef, audioBuffer |-> audioBuffer,
                 currentTime |-> currentTime, duration |-> duration]
       IN IF PlayReturnsEarly(audioBuffer, audioContextRef)
          THEN /\ lastEvent' = "play"
               /\ UNCHANGED <<pendingPlays, audioSourceRef, startTimeRef, isPlaying,
                              sources, animationFrame, frameCallbacks>>
          ELSE IF MustResume(contexts[audioContextRef].state)
          THEN /\ pendingPlays' = Append(pendingPlays, k)
               /\ lastEvent' = "play"
               /\ UNCHANGED <<audioSourceRef, startTimeRef, isPlaying, sources,
                              animationFrame, frameCallbacks>>
          ELSE LET t == PlayBody(Transport, k, audioContextRef,
                                 contexts[audioContextRef].clock)
               IN /\ audioSourceRef' = t.audioSourceRef
                  /\ startTimeRef' = t.startTimeRef
                  /\ isPlaying' = t.isPlaying
                  /\ sources' = Retire(t.sources, contexts)
                  /\ animationFrame' = TimerEffect(animationFrame, isPlaying, duration,
                                                   t.isPlaying, duration)
                  /\ frameCallbacks' = TimerEffectCallbacks(frameCallbacks, animationFrame,
                                                            isPlaying, duration,
                                                            t.isPlaying, duration)
                  /\ lastEvent' = IF StartThrows(k) THEN "playThrew" ELSE "play"
                  /\ UNCHANGED pendingPlays
    /\ UNCHANGED <<lifecycle, propVars, currentTime, duration, audioBuffer,
                   audioContextRef, contexts, pureVars>>

togglePlay == TogglePlayGenerate \/ TogglePlayPause \/ TogglePlayPlay

\* a click on the button
Click == ClickDisabled \/ togglePlay

\* a suspended context starts running (autoplay allowed, or resume() done):
\* the promises of its pending resume() calls resolve in order and each
\* awaiting handlePlay runs lines 109-120
ContextRuns(c) ==
    /\ c \in ContextIds
    /\ contexts[c].state = "suspended"
    /\ contexts' = [contexts EXCEPT ![c].state = "running"]
    /\ pendingPlays' = AwaitingElsewhere(c)
    /\ LET t == PlayBodies(Transport, AwaitingOn(c), audioContextRef,
                           contexts[audioContextRef].clock)
       IN /\ audioSourceRef' = t.audioSourceRef
          /\ startTimeRef' = t.startTimeRef
          /\ isPlaying' = IF lifecycle = "mounted" THEN t.isPlaying ELSE isPlaying
          /\ sources' = Retire(t.sources, contexts')
          /\ animationFrame' = IF lifecycle = "mounted"
                               THEN TimerEffect(animationFrame, isPlaying, duration,
                                                t.isPlaying, duration)
                               ELSE animationFrame
          /\ frameCallbacks' = IF lifecycle = "mounted"
                               THEN TimerEffectCallbacks(frameCallbacks, animationFrame,
                                                         isPlaying, duration,
                                                         t.isPlaying, duration)
                               ELSE frameCallbacks
    /\ lastEvent' = IF \E i \in 1..Len(AwaitingOn(c)) : StartThrows(AwaitingOn(c)[i])
                    THEN "rejected" ELSE "other"
    /\ UNCHANGED <<lifecycle, propVars, currentTime, duration, audioBuffer,
                   audioContextRef, pureVars>>

\* the engine cannot resume: the pending resume() promises of the context
\* reject and each awaiting handlePlay ends with that error at line 106
ResumeRejects(c) ==
    /\ c \in ContextIds
    /\ contexts[c].state = "suspended"
    /\ AwaitingOn(c) # <<>>
    /\ pendingPlays' = AwaitingElsewhere(c)
    /\ lastEvent' = "rejected"
    /\ UNCHANGED <<lifecycle, propVars, stateVars, refVars, animationFrame,
                   frameCallbacks, engineVars, pureVars>>

Next ==
    \/ \E p \in Payloads \cup {NoPayload}, engineOk \in BOOLEAN : SetBase64Audio(p, engineOk)
    \/ SetIsLoading
    \/ Unmount
    \/ \E c \in 1..MaxContexts : Tick(c)
    \/ UpdateProgress
    \/ Click
    \/ \E c \in 1..MaxContexts : ContextRuns(c)
    \/ \E c \in 1..MaxContexts : ResumeRejects(c)

\* the progress clock taken on its own is not part of a run of the player
RunOff ==
    /\ runPhase = "off"
    /\ runClock = 0
    /\ runDuration = 0
    /\ runTime = 0
    /\ runAnchor = 0
    /\ runOffset = 0
    /\ runSamples = 0
    /\ runPrev = 0

\* the host is not part of a run of the player
HostOff ==
    /\ screen = "off"
    /\ currentUnit = 0
    /\ lessonMode = "READ"
    /\ audioData = 0
    /\ isAudioLoading = FALSE
    /\ generations = <<>>

\* the decoder taken on its own is not part of a run of the player
DecOff ==
    /\ decPhase = "off"
    /\ decText = <<>>
    /\ decBuffer = NoBuffer
    /\ decDuration = Div(0, 1)

LocOff ==
    /\ locPhase = "off"
    /\ locTimeA = 0
    /\ locTimeB = 0
    /\ locDuration = 0
    /\ locScript = <<>>
    /\ locIndexA = 0
    /\ locIndexB = 0

Init == PlayerInit /\ LocOff /\ DecOff /\ HostOff /\ RunOff

Spec == Init /\ [][Next]_vars

\* ------------------------------------------- the locator taken on its own
LocInit ==
    /\ PlayerInit
    /\ DecOff
    /\ HostOff
    /\ RunOff
    /\ locPhase = "input"
    /\ locTimeA \in 0..MaxTime
    /\ locTimeB \in 0..MaxTime
    /\ locDuration \in 0..MaxTime
    /\ locScript \in Scripts
    /\ locIndexA = 0
    /\ locIndexB = 0

\* one render: the memo is computed for both times
Locate ==
    /\ locPhase = "input"
    /\ locPhase' = "done"
    /\ locIndexA' = activeParagraphIndex(locTimeA, locDuration, locScript)
    /\ locIndexB' = activeParagraphIndex(locTimeB, locDuration, locScript)
    /\ UNCHANGED <<locTimeA, locTimeB, locDuration, locScript, playerVars, decVars,
                   hostVars, runVars>>

LocNext == Locate

SpecLocator == LocInit /\ [][LocNext]_vars

\* ------------------------------------------- the decoder taken on its own
DecInit ==
    /\ PlayerInit
    /\ LocOff
    /\ HostOff
    /\ RunOff
    /\ decPhase = "input"
    /\ decText \in Texts
    /\ decBuffer = NoBuffer
    /\ decDuration = Div(0, 1)

\* lines 43-65 with a context that could be constructed: the decode of the
\* payload, which publishes the buffer and its duration (lines 61-62) or
\* throws into the catch of line 63
Decode ==
    /\ decPhase = "input"
    /\ Truthy(Payload(decText))
    /\ LET decoded == DecodePayload(decText)
           buffer == [present |-> TRUE, channelData |-> decoded.channelData]
       IN /\ decPhase' = IF decoded.ok THEN "decoded" ELSE "threw"
          /\ decBuffer' = IF decoded.ok THEN buffer ELSE decBuffer
          /\ decDuration' = IF decoded.ok THEN BufferSeconds(buffer) ELSE decDuration
    /\ UNCHANGED <<decText, playerVars, locVars, hostVars, runVars>>

DecNext == Decode

SpecDecoder == DecInit /\ [][DecNext]_vars

\* ----------------------------------------------- the host taken on its own
\* (src/services/geminiService.ts).  The units of the syllabus are numbered
\* 1..MaxUnits in reading order; the lesson of unit 1 has an empty podcast
\* script.  An audio payload is known by the unit whose script produced it.
Units == 1..MaxUnits

\* line 741: !content?.podcastScript || content.podcastScript.length === 0
NoPodcastScript(u) == u = 1

\* line 1212: the player is rendered in the LISTEN mode of the lesson screen
PlayerMounted == screen = "LESSON" /\ lessonMode = "LISTEN"

\* line 703: setAudioData(null)
EnterUnitAudio(data) == 0

\* lines 497-502: the state of App after its first render
HostInit ==
    /\ PlayerInit
    /\ LocOff
    /\ DecOff
    /\ RunOff
    /\ screen = "SYLLABUS"
    /\ currentUnit = 1
    /\ lessonMode = "READ"
    /\ audioData = 0
    /\ isAudioLoading = FALSE
    /\ generations = <<>>

\* lines 697-707: enterUnit, called from the list of units (line 1000) or
\* from handleNextUnit (line 730)
enterUnit(u) ==
    /\ currentUnit' = u
    /\ lessonMode' = "READ"
    /\ audioData' = EnterUnitAudio(audioData)
    /\ screen' = "LESSON"
    /\ UNCHANGED <<isAudioLoading, generations>>

\* line 1000: a unit is picked on the syllabus screen
PickUnit(u) ==
    /\ screen = "SYLLABUS"
    /\ u \in Units
    /\ enterUnit(u)
    /\ UNCHANGED <<playerVars, locVars, decVars, runVars>>

\* lines 719-734: the next unit, or the syllabus after the last one
handleNextUnit ==
    /\ screen = "LESSON"
    /\ IF currentUnit < MaxUnits
       THEN enterUnit(currentUnit + 1)
       ELSE /\ screen' = "SYLLABUS"
            /\ UNCHANGED <<currentUnit, lessonMode, audioData, isAudioLoading,
                           generations>>
    /\ UNCHANGED <<playerVars, locVars, decVars, runVars>>

\* line 1046: back to the syllabus
BackToSyllabus ==
    /\ screen = "LESSON"
    /\ screen' = "SYLLABUS"
    /\ UNCHANGED <<currentUnit, lessonMode, audioData, isAudioLoading, generations,
                   playerVars, locVars, decVars, runVars>>

\* line 1055: a tab of the lesson screen
SetLessonMode(m) ==
    /\ screen = "LESSON"
    /\ m \in {"READ", "LISTEN", "QUIZ"}
    /\ m # lessonMode
    /\ lessonMode' = m
    /\ UNCHANGED <<screen, currentUnit, audioData, isAudioLoading, generations,
                   playerVars, locVars, decVars, runVars>>

\* lines 736-744: the player's onGenerate, which togglePlay calls when it
\* has no payload and is not loading; the request is sent with the script of
\* the unit displayed at the call
handleGenerateAudio ==
    /\ PlayerMounted
    /\ ~ButtonDisabled(isAudioLoading)
    /\ ToggleBranch(IF audioData = 0 THEN NoPayload ELSE PayloadTwo,
                    isAudioLoading, FALSE) = "generate"
    /\ IF NoPodcastScript(currentUnit)
       THEN UNCHANGED <<isAudioLoading, generations>>
       ELSE /\ Len(generations) < MaxGenerations
            /\ isAudioLoading' = TRUE
            /\ generations' = Append(generations, currentUnit)
    /\ UNCHANGED <<screen, currentUnit, lessonMode, audioData, playerVars, locVars,
                   decVars, runVars>>

\* the requests in flight other than the i-th
OtherGenerations(i) ==
    SubSeq(generations, 1, i - 1) \o SubSeq(generations, i + 1, Len(generations))

\* lines 744-745 and 749-751: generatePodcastAudio resolved
GenerationResolves(i) ==
    /\ i \in 1..Len(generations)
    /\ audioData' = generations[i]
    /\ isAudioLoading' = FALSE
    /\ generations' = OtherGenerations(i)
    /\ UNCHANGED <<screen, currentUnit, lessonMode, playerVars, locVars, decVars, runVars>>

\* lines 746-751: generatePodcastAudio rejected
GenerationRejects(i) ==
    /\ i \in 1..Len(generations)
    /\ isAudioLoading' = FALSE
    /\ generations' = OtherGenerations(i)
    /\ UNCHANGED <<screen, currentUnit, lessonMode, audioData, playerVars, locVars,
                   decVars, runVars>>

HostNext ==
    \/ \E u \in Units : PickUnit(u)
    \/ handleNextUnit
    \/ BackToSyllabus
    \/ \E m \in {"READ", "LISTEN", "QUIZ"} : SetLessonMode(m)
    \/ handleGenerateAudio
    \/ \E i \in 1..MaxGenerations : GenerationResolves(i)
    \/ \E i \in 1..MaxGenerations : GenerationRejects(i)

SpecHost == HostInit /\ [][HostNext]_vars

\* ------------------------------------ the progress clock taken on its own:
\* one decoded payload on one running context, played, sampled and paused
RunInit ==
    /\ PlayerInit
    /\ LocOff
    /\ DecOff
    /\ HostOff
    /\ runPhase = "paused"
    /\ runClock = 0
    /\ runDuration \in 1..MaxRunTime
    /\ runTime = 0
    /\ runAnchor = 0
    /\ runOffset = 0
    /\ runSamples = 0
    /\ runPrev = 0

\* lines 109-120: handlePlay on the running context
RunPlay ==
    /\ runPhase = "paused"
    /\ LET offset == PlayOffset(runTime, runDuration)
       IN /\ runOffset' = offset
          /\ runAnchor' = Anchor(runClock, offset)
    /\ runPhase' = "playing"
    /\ runSamples' = 0
    /\ runPrev' = 0
    /\ UNCHANGED <<runClock, runDuration, runTime, playerVars, locVars, decVars,
                   hostVars>>

\* the audio clock advances by one frame; it never goes back
RunTick ==
    /\ runPhase \in {"paused", "playing"}
    /\ runClock < MaxRunClock
    /\ runClock' = runClock + 1
    /\ UNCHANGED <<runPhase, runDuration, runTime, runAnchor, runOffset, runSamples,
                   runPrev, playerVars, locVars, decVars, hostVars>>

\* lines 79-91: a frame callback of the playing run publishes a value
RunSample ==
    /\ runPhase = "playing"
    /\ LET sample == ProgressSample(runClock, runAnchor, runDuration)
       IN /\ runTime' = sample.time
          /\ runPhase' = IF sample.ended THEN "paused" ELSE "playing"
    /\ runPrev' = IF runSamples = 0 THEN 0 ELSE runTime
    /\ runSamples' = Min(runSamples + 1, 2)
    /\ UNCHANGED <<runClock, runDuration, runAnchor, runOffset, playerVars, locVars,
                   decVars, hostVars>>

\* lines 123-129: handlePause ends the run and publishes nothing
RunPause ==
    /\ runPhase = "playing"
    /\ runPhase' = "paused"
    /\ UNCHANGED <<runClock, runDuration, runTime, runAnchor, runOffset, runSamples,
                   runPrev, playerVars, locVars, decVars, hostVars>>

RunNext == RunPlay \/ RunTick \/ RunSample \/ RunPause

SpecRun == RunInit /\ [][RunNext]_vars

\* ------------------------------------------------ claims on the locator
\* the indices i whose end ratio (chars of segments 0..i) / totalChars is
\* not below time / dur, by cross-multiplication
IndicesReaching(time, dur, script) ==
    {i \in 0..(Len(script) - 1) :
        time * TotalChars(script) <= SumLengths(script, i + 1) * dur}

\* C1: with totalChars > 0, duration > 0 and 0 <= currentTime <= duration the
\* locator returns the smallest index whose end ratio is >= the progress; the
\* boundary belongs to the earlier segment.
C1_SmallestInclusiveIndex ==
    (/\ locPhase = "done"
     /\ TotalChars(locScript) > 0
     /\ locDuration > 0
     /\ locTimeA <= locDuration)
    => /\ locIndexA \in IndicesReaching(locTimeA, locDuration, locScript)
       /\ \A j \in IndicesReaching(locTimeA, locDuration, locScript) : locIndexA <= j

\* lengths [4, 6] at progress 2/5 = 0.4: segment 0 is the one selected
C1_Witness ==
    /\ locPhase = "done"
    /\ locScript = <<"abcd", "abcdef">>
    /\ locDuration = 5
    /\ locTimeA = 2
    /\ locIndexA = 0
    /\ locTimeB = 3
    /\ locIndexB = 1

\* C2: for one script and one duration > 0 the index does not decrease when
\* currentTime grows within [0, duration].
C2_Monotonic ==
    (/\ locPhase = "done"
     /\ locDuration > 0
     /\ locTimeA <= locTimeB
     /\ locTimeB <= locDuration)
    => locIndexA <= locIndexB

\* a later time that lands two segments further on
C2_Witness ==
    /\ locPhase = "done"
    /\ locDuration > 0
    /\ locTimeA < locTimeB
    /\ locTimeB <= locDuration
    /\ locIndexB = locIndexA + 2

\* C3: with duration 0 the locator returns 0 whatever currentTime and the
\* script are (empty script and empty paragraphs included).
C3_ZeroDurationGivesZero ==
    (locPhase = "done" /\ locDuration = 0)
    => (locIndexA = 0 /\ locIndexB = 0)

\* duration 0, a positive time and a script of empty paragraphs
C3_Witness ==
    /\ locPhase = "done"
    /\ locDuration = 0
    /\ locTimeA > 0
    /\ locScript = <<"", "">>
    /\ locIndexA = 0

\* C4: with a total character count of 0 the locator returns 0 for every
\* currentTime and every duration, duration > 0 included.
C4_ZeroTotalGivesZero ==
    (locPhase = "done" /\ TotalChars(locScript) = 0)
    => locIndexA = 0

\* ------------------------------------------------- claims on the player
\* the audio position of the running session: clock of the context - anchor
AudioPosition == contexts[audioContextRef].clock - startTimeRef

\* the current session plays on the context of the ref
SessionOnRef ==
    /\ audioSourceRef # 0
    /\ SourceLive(audioSourceRef)
    /\ sources[audioSourceRef].ctx = audioContextRef

\* C5: a pause leaves currentTime at the audio position reached at the pause,
\* wherever the pause falls relative to the last frame sample.
C5_PauseKeepsPosition ==
    [][(/\ isPlaying
        /\ SessionOnRef
        /\ AudioPosition < duration
        /\ ~isPlaying'
        /\ audioSourceRef' = 0)
       => currentTime' = AudioPosition]_vars

\* a handlePlay body ran in this step
PlayStarted == Len(sources') > Len(sources)

\* C6: handlePlay starts the source at offset currentTime, or at 0 when
\* currentTime >= duration, and sets the anchor to the audio clock minus that
\* offset; a finished track restarts with elapsed 0.
C6_PlayOffsetAndAnchor ==
    [][PlayStarted =>
         LET offset == IF currentTime >= duration THEN 0 ELSE currentTime
             now == contexts'[audioContextRef'].clock
             n == Len(sources')
         IN /\ audioSourceRef' = n
            /\ isPlaying'
            /\ startTimeRef' = now - offset
            /\ ~sources'[n].stopped
               => (sources'[n].offset = offset /\ sources'[n].startedAt = now)
            /\ (currentTime >= duration) => (now - startTimeRef' = 0)]_vars

\* a finished track was started again and no frame has sampled it yet
C6_Witness ==
    /\ isPlaying
    /\ duration > 0
    /\ currentTime = duration
    /\ SessionOnRef
    /\ sources[audioSourceRef].offset = 0
    /\ startTimeRef = contexts[audioContextRef].clock
    /\ contexts[audioContextRef].clock > 0

\* the last change of isPlaying was the end-of-track branch of a frame sample
\* (a pause clears audioSourceRef, the end of the track does not)
EndedNaturally == lifecycle = "mounted" /\ ~isPlaying /\ audioSourceRef # 0

\* C7: the frame sample that finds elapsed > duration publishes exactly
\* duration, clears isPlaying and schedules no frame; from then on no frame is
\* pending and currentTime / isPlaying stay as they are until a handlePlay runs.
C7_EndOfTrackStops ==
    [][/\ (UpdateProgress /\ isPlaying /\ AudioPosition > duration)
          => (currentTime' = duration /\ ~isPlaying' /\ ~animationFrame'.pending)
       /\ EndedNaturally => ~animationFrame.pending
       /\ (EndedNaturally /\ ~PlayStarted)
          => (currentTime' = currentTime /\ isPlaying' = isPlaying
              /\ ~animationFrame'.pending)]_vars

\* the track ran out: the clock is past the end and the player has stopped at it
C7_Witness ==
    /\ EndedNaturally
    /\ duration > 0
    /\ currentTime = duration
    /\ AudioPosition > duration
    /\ ~animationFrame.pending

\* C8: whenever isPlaying is false, and after the unmount, no frame callback
\* is scheduled (so none can change currentTime or isPlaying).
C8_NoFrameUnlessPlaying ==
    (~isPlaying \/ lifecycle = "unmounted") => ~animationFrame.pending

\* paused by the user after frames had sampled the position
C8_Witness ==
    /\ lifecycle = "mounted"
    /\ ~isPlaying
    /\ audioSourceRef = 0
    /\ currentTime > 0
    /\ currentTime < duration
    /\ ~animationFrame.pending

\* C9: a new payload arriving while playing tears the session and the clock
\* down: isPlaying becomes false, the old source is no longer the current
\* session and no frame stays scheduled to sample the old anchor.
C9_ReplacementTearsDown ==
    [][(/\ isPlaying
        /\ SessionOnRef
        /\ contexts[audioContextRef].state = "running"
        /\ base64Audio' # base64Audio
        /\ Truthy(base64Audio'))
       => (/\ ~isPlaying'
           /\ audioSourceRef' = 0
           /\ ~animationFrame'.pending)]_vars

\* the contexts that have not been closed
OpenContexts == {c \in ContextIds : contexts[c].state # "closed"}

\* C10: a context is closed once a payload supersedes it or the player
\* unmounts, also when its decode threw: at most one context is open, it is
\* the one of the mounted player's current payload, and none is open after the
\* unmount.
C10_ContextsReleased ==
    /\ Cardinality(OpenContexts) <= 1
    /\ \A c \in OpenContexts :
          /\ lifecycle = "mounted"
          /\ c = audioContextRef
          /\ Truthy(base64Audio)

\* unmounted after a payload whose decode threw once its context existed,
\* with an earlier context superseded before that
C10_Witness ==
    /\ lifecycle = "unmounted"
    /\ base64Audio = PayloadOdd
    /\ audioContextRef = 2
    /\ contexts[1].state = "closed"
    /\ contexts[2].state = "closed"

\* C11: a togglePlay with no payload while not loading calls onGenerate, once,
\* and returns: isPlaying, currentTime, duration, the source ref and the
\* anchor keep their values, no source is created or stopped and no call is
\* left waiting.
C11_ToggleWithoutPayloadGenerates ==
    [][(togglePlay /\ ~Truthy(base64Audio) /\ ~isLoading)
       => (/\ lastEvent' = "generate"
           /\ UNCHANGED <<isPlaying, currentTime, duration, audioSourceRef,
                          startTimeRef, sources, pendingPlays>>)]_vars

\* onGenerate was just called by a player that has no payload and is not loading
C11_Witness ==
    /\ lastEvent = "generate"
    /\ ~Truthy(base64Audio)
    /\ ~isLoading
    /\ lifecycle = "mounted"

\* C12: pause is idempotent.  In every state, handlePause applied to the
\* result of handlePause changes nothing; with no current source it changes
\* nothing at all; with one it stops that node, clears the ref and sets
\* isPlaying false.  A click that pauses leaves currentTime as it was and
\* leaves a state in which a further handlePause changes nothing.
C12_PauseIdempotent ==
    [][/\ LET t == HandlePause(Transport)
          IN /\ HandlePause(t) = t
             /\ audioSourceRef = 0 => t = Transport
             /\ audioSourceRef # 0 =>
                   /\ t.sources[audioSourceRef].stopped
                   /\ t.audioSourceRef = 0
                   /\ ~t.isPlaying
                   /\ t.startTimeRef = startTimeRef
       /\ TogglePlayPause =>
             /\ currentTime' = currentTime
             /\ duration' = duration
             /\ audioSourceRef' = 0
             /\ ~isPlaying'
             /\ \A n \in 1..Len(sources') : n = audioSourceRef => sources'[n].stopped
             /\ HandlePause(Transport') = Transport']_vars

\* paused in the middle of the track by a click
C12_Witness ==
    /\ lastEvent = "pause"
    /\ ~isPlaying
    /\ audioSourceRef = 0
    /\ 0 < currentTime
    /\ currentTime < duration

\* C13: a handlePlay called with no decoded buffer, or with no audio context,
\* returns at once without an error: no source node is created, no call is
\* left waiting, and isPlaying, currentTime, the anchor, the source ref and
\* the frame callback keep their values.
C13_PlayWithoutBufferIsNoOp ==
    [][(TogglePlayPlay /\ (~audioBuffer.present \/ audioContextRef = 0))
       => (/\ lastEvent' = "play"
           /\ UNCHANGED <<sources, pendingPlays, isPlaying, currentTime,
                          startTimeRef, audioSourceRef, animationFrame,
                          contexts>>)]_vars

\* a click played a payload whose decode had thrown: a context exists and no
\* buffer does
C13_Witness ==
    /\ lastEvent = "play"
    /\ base64Audio = PayloadOdd
    /\ ~audioBuffer.present
    /\ audioContextRef # 0
    /\ contexts[audioContextRef].state # "closed"

\* a step in which every handlePlay that ends, ends with an engine error:
\* the awaited resume() rejected, or source.start threw, at once or after
\* the await
EngineFailure ==
    \/ \E c \in ContextIds : ResumeRejects(c)
    \/ TogglePlayPlay /\ lastEvent' = "playThrew"
    \/ \E c \in ContextIds :
          /\ ContextRuns(c)
          /\ AwaitingOn(c) # <<>>
          /\ \A i \in 1..Len(AwaitingOn(c)) : StartThrows(AwaitingOn(c)[i])

\* C14: when resume() rejects or the start of the source throws, playback does
\* not start: isPlaying stays false, the source ref, the anchor and
\* currentTime keep their values and no source node is added.
C14_EngineFailureLeavesState ==
    [][EngineFailure
       => (/\ ~isPlaying'
           /\ UNCHANGED <<isPlaying, audioSourceRef, startTimeRef, currentTime,
                          duration, sources>>)]_vars

\* the resume() awaited by a handlePlay rejected: the context is still
\* suspended, nothing plays and no call is waiting any more
C14_Witness ==
    /\ lastEvent = "rejected"
    /\ lifecycle = "mounted"
    /\ audioBuffer.present
    /\ contexts[audioContextRef].state = "suspended"
    /\ pendingPlays = <<>>
    /\ ~isPlaying

\* C15: after a render whose decode threw (malformed payload, or no audio
\* context could be constructed) the player is idle: there is no decoded
\* buffer, duration is 0 and isPlaying is false, also when the payload that
\* failed replaced one that had decoded.
C15_DecodeFailureLeavesIdle ==
    lastEvent = "decodeThrew"
    => (/\ ~audioBuffer.present
        /\ duration = 0
        /\ ~isPlaying)

\* ------------------------------------------------ claims on the decoder
\* the bytes atob gives for the payload decoded on its own
DecBytes == atob(decText).bytes

\* C16: a payload whose bytes are odd in number makes the decode throw, and no
\* buffer and no duration is published from it: the last byte is not dropped
\* to give a shorter buffer.
C16_OddLengthRejected ==
    (/\ decPhase \in {"decoded", "threw"}
     /\ atob(decText).ok
     /\ Len(DecBytes) % 2 = 1)
    => (/\ decPhase = "threw"
        /\ decBuffer = NoBuffer
        /\ decDuration = Div(0, 1))

\* the decode of a payload of three bytes threw
C16_Witness ==
    /\ decPhase = "threw"
    /\ decText = <<0, 8, 55, 63>>
    /\ Len(DecBytes) = 3

\* C17: a decode that succeeds on B bytes, B even, gives one channel of
\* exactly B/2 samples, sample i being made of bytes 2i-1 and 2i; the
\* duration of the buffer is (B/2)/24000 seconds and the published duration
\* is the duration of the buffer.
C17_DecodeSizeAndDuration ==
    decPhase = "decoded"
    => (/\ Len(DecBytes) % 2 = 0
        /\ decBuffer.present
        /\ 2 * Len(decBuffer.channelData) = Len(DecBytes)
        /\ \A i \in 1..Len(decBuffer.channelData) :
              decBuffer.channelData[i]
                 = Div(ToInt16(DecBytes[2 * i - 1], DecBytes[2 * i]), 32768)
        /\ decDuration = Div(Len(DecBytes) \div 2, 24000)
        /\ decDuration = BufferSeconds(decBuffer))

\* four bytes decoded to the two samples -32768 and 8192, in that order
C17_Witness ==
    /\ decPhase = "decoded"
    /\ decText = <<0, 8, 0, 0, 8, 0>>
    /\ DecBytes = <<0, 128, 0, 32>>
    /\ decBuffer.channelData = <<Div(-32768, 32768), Div(8192, 32768)>>
    /\ decDuration = Div(2, 24000)

\* the integer read from the byte pair of sample i
DecInt16(i) == ToInt16(DecBytes[2 * i - 1], DecBytes[2 * i])

\* p = q on doubles
SameValue(p, q) == Leq(p, q) /\ Leq(q, p)

\* C18: sample i is v/32768 for the signed 16-bit little-endian integer v of
\* the byte pair (lo, hi) = (byte 2i-1, byte 2i): v is the one integer of
\* -32768..32767 congruent to lo + 256 hi modulo 65536; -32768 gives exactly
\* -1, 0 gives 0 and 32767 gives 32767/32768; every sample lies in [-1, 1)
\* and a larger v gives a larger sample.
C18_AmplitudeMapping ==
    decPhase = "decoded"
    => (/\ \A i \in 1..Len(decBuffer.channelData) :
              LET v == DecInt16(i)
                  sample == decBuffer.channelData[i]
              IN /\ v \in -32768..32767
                 /\ (v - (DecBytes[2 * i - 1] + 256 * DecBytes[2 * i])) % 65536 = 0
                 /\ sample = Div(v, 32768)
                 /\ Leq(Div(-1, 1), sample)
                 /\ Lt(sample, Div(1, 1))
                 /\ v = -32768 => SameValue(sample, Div(-1, 1))
                 /\ v = 0 => SameValue(sample, Div(0, 1))
                 /\ v = 32767 => /\ SameValue(sample, Div(32767, 32768))
                                 /\ ~SameValue(sample, Div(1, 1))
        /\ \A i, j \in 1..Len(decBuffer.channelData) :
              DecInt16(i) < DecInt16(j)
                 <=> Lt(decBuffer.channelData[i], decBuffer.channelData[j]))

\* the bytes 255, 127, 192, 255 decoded to the largest sample and to a
\* negative one
C18_Witness ==
    /\ decPhase = "decoded"
    /\ DecBytes = <<255, 127, 192, 255>>
    /\ DecInt16(1) = 32767
    /\ DecInt16(2) = -64
    /\ Lt(decBuffer.channelData[2], decBuffer.channelData[1])

\* ------------------------------------------------ claims on the transport, continued
\* C19: the source ref holds a node only while playing: in every state of the
\* mounted player with isPlaying false the ref is null.
C19_SessionOnlyWhilePlaying ==
    (lifecycle = "mounted" /\ ~isPlaying) => audioSourceRef = 0

\* C20: while isLoading is true a click on the button changes nothing of the
\* transport: no source is started or stopped, no call is left waiting,
\* isPlaying, currentTime, the source ref and the anchor keep their values,
\* and onGenerate is not called, with or without a payload.
C20_LoadingDisablesTransport ==
    [][(Click /\ isLoading)
       => (/\ lastEvent' = "ignored"
           /\ UNCHANGED <<sources, pendingPlays, isPlaying, currentTime, duration,
                          audioSourceRef, startTimeRef, animationFrame,
                          contexts>>)]_vars

\* a click was ignored while loading, with a payload that is playing
C20_Witness ==
    /\ lastEvent = "ignored"
    /\ isLoading
    /\ Truthy(base64Audio)
    /\ isPlaying
    /\ SessionOnRef

\* ------------------------------------------------ claims on the host
\* C21: no audio crosses units: whenever a lesson is displayed, a non-null
\* audioData was generated from the podcast script of the unit displayed,
\* also when a generation was in flight at the moment of the switch.
C21_AudioOfDisplayedUnit ==
    (screen = "LESSON" /\ audioData # 0) => audioData = currentUnit

\* ------------------------------------------------ claims on the player, continued
\* C22: in every state of the mounted player with duration > 0 the published
\* time is in range, 0 <= currentTime <= duration, so the progress given to
\* the locator lies in [0, 1].
C22_PublishedTimeInRange ==
    (lifecycle = "mounted" /\ duration > 0)
    => (0 <= currentTime /\ currentTime <= duration)

\* ------------------------------------------------ claims on the progress clock
\* C23: within one playing run on a clock that never goes back, every value
\* the progress clock publishes is at least the value it published before,
\* and the first value published after a play is at least the offset that
\* play started from.
C23_PublishedTimeMonotonic ==
    /\ runSamples >= 1 => runTime >= runOffset
    /\ runSamples = 2 => runTime >= runPrev

\* resumed from a positive offset, the run has published two values, the
\* second above the first
C23_Witness ==
    /\ runPhase = "playing"
    /\ runOffset > 0
    /\ runSamples = 2
    /\ runPrev >= runOffset
    /\ runTime > runPrev

\* ------------------------------------------------ claims on the player, continued
\* C24: the browser never holds more than one updateProgress callback: the
\* one it holds is the one the running timer effect scheduled last, and none
\* is held when that effect has none pending, so two chains of callbacks
\* never run side by side.
C24_SingleFrameCallback ==
    /\ frameCallbacks \in {0, 1}
    /\ frameCallbacks = 1 <=> animationFrame.pending

\* a payload of another duration arrived while playing: the effect ran again
\* and one callback, with the new duration, is pending
C24_Witness ==
    /\ isPlaying
    /\ frameCallbacks = 1
    /\ animationFrame.pending
    /\ base64Audio = PayloadThree
    /\ animationFrame.duration = 3
    /\ audioContextRef = 2

\* C25: a play invoked while the context is suspended waits for resume()
\* before anything else: the call is held at its await, with isPlaying still
\* false and no node created, for as long as the context is suspended; every
\* call that waits, waits on a suspended context, and every node that sounds
\* was started on a context that runs.
C25_ResumeBeforeStart ==
    /\ \A n \in 1..Len(sources) :
          ~sources[n].stopped => contexts[sources[n].ctx].state = "running"
    /\ \A i \in 1..Len(pendingPlays) :
          contexts[pendingPlays[i].ctx].state = "suspended"
    /\ (/\ lastEvent = "play"
        /\ lifecycle = "mounted"
        /\ ~PlayReturnsEarly(audioBuffer, audioContextRef)
        /\ contexts[audioContextRef].state = "suspended")
       => (/\ AwaitingOn(audioContextRef) # <<>>
           /\ ~isPlaying
           /\ \A n \in 1..Len(sources) : sources[n].ctx # audioContextRef)

\* a click played a decoded payload on its suspended context: the call
\* waits, nothing has started
C25_Witness ==
    /\ lastEvent = "play"
    /\ audioBuffer.present
    /\ contexts[audioContextRef].state = "suspended"
    /\ Len(pendingPlays) = 1
    /\ pendingPlays[1].ctx = audioContextRef
    /\ ~isPlaying
    /\ audioSourceRef = 0

\* ------------------------------------------------ claims on the locator, continued
\* C26: with a total character count of 0 and duration > 0 every end ratio is
\* 0/0, no comparison progress <= pEndRatio succeeds, and the locator
\* returns the last index, script.length - 1.
C26_ZeroTotalFallsThrough ==
    (locPhase = "done" /\ TotalChars(locScript) = 0 /\ locDuration > 0)
    => (/\ \A i \in 1..Len(locScript) :
              /\ IsNaN(Div(SumLengths(locScript, i), TotalChars(locScript)))
              /\ ~ProgressWithin(Div(locTimeA, locDuration),
                                 Div(SumLengths(locScript, i), TotalChars(locScript)))
        /\ locIndexA = Len(locScript) - 1
        /\ locIndexB = Len(locScript) - 1)

\* three empty segments, a positive duration: the locator answered 2, at the
\* start of the track too
C26_Witness ==
    /\ locPhase = "done"
    /\ locScript = <<"", "", "">>
    /\ locDuration > 0
    /\ locTimeA = 0
    /\ locTimeB > 0
    /\ locIndexA = 2
    /\ locIndexB = 2

\* ------------------------------------------------ claims on the player, continued
\* C27: isPlaying changes only in a click that pauses or plays, in the
\* continuation of a play that waited for resume(), or in the frame sample
\* that finds elapsed > duration, which sets it false; a step that changes
\* the payload or isLoading leaves isPlaying as it was.
C27_OnlyToggleAndEndChangePlaying ==
    [][/\ isPlaying' # isPlaying
          => \/ TogglePlayPause
             \/ TogglePlayPlay
             \/ \E c \in ContextIds : ContextRuns(c) /\ AwaitingOn(c) # <<>>
             \/ /\ UpdateProgress
                /\ contexts[audioContextRef].clock - startTimeRef > animationFrame.duration
                /\ ~isPlaying'
       /\ (base64Audio' # base64Audio \/ isLoading' # isLoading)
          => isPlaying' = isPlaying]_vars

\* the payload was removed while playing: isPlaying is still true
C27_Witness ==
    /\ lifecycle = "mounted"
    /\ isPlaying
    /\ base64Audio = NoPayload
    /\ audioSourceRef # 0

\* the source nodes that were started and have neither been stopped nor run
\* to their end
LiveSources == {n \in 1..Len(sources) : Sounding(sources[n], contexts)}

\* C28: at most one source node is live, and it is the one the source ref
\* holds, also when a second click played while an earlier play was still
\* waiting for resume().
C28_AtMostOneLiveSource ==
    /\ Cardinality(LiveSources) <= 1
    /\ \A n \in LiveSources : n = audioSourceRef


\* C29: close() is called at most once on each audio context the component
\* creates, across the payload changes (payload to payload, payload to null,
\* null to payload) and the unmount: no cleanup closes a context that an
\* earlier cleanup closed already.
C29_CloseAtMostOnce ==
    \A c \in ContextIds : ~contexts[c].closeRejected


\* C30: the decoded buffer and the duration the player holds, when present,
\* were decoded from the current base64Audio: a null payload, or a payload
\* that fails to decode, leaves no buffer of an earlier payload for
\* handlePlay to play.
C30_BufferOfCurrentPayload ==
    audioBuffer.present =>
        /\ Truthy(base64Audio)
        /\ DecodePayload(base64Audio.text).ok
        /\ audioBuffer.channelData = DecodePayload(base64Audio.text).channelData
        /\ duration = Len(DecodePayload(base64Audio.text).channelData)

====
